---- MODULE Spec2Model ----
(***************************************************************************)
(* Model of Ostad-Capstone-Backend/server.js: an express API over a        *)
(* MongoDB store (collections "students" and "results") and a Redis cache  *)
(* (keys result:<id>, written with SETEX CACHE_TTL).                       *)
(*                                                                         *)
(* Every request handler is an async function.  It runs synchronously up   *)
(* to its next await, so one action of the model is: the reply of the      *)
(* awaited downstream call (its effect on the store or the cache included) *)
(* followed by the handler's code up to the next await or the response.    *)
(* Every downstream call either succeeds (ok) or fails (the driver throws, *)
(* the call has had no effect, and the handler's catch block answers).     *)
(***************************************************************************)
EXTENDS Integers, Sequences, FiniteSets, TLC

(***************************************************************************)
(* Bounds of the model.                                                    *)
(***************************************************************************)
MaxDocs == 2        \* documents the results collection may hold
MaxStudents == 2    \* documents the students collection may hold
MaxTicks == 2       \* the clock advances this many times
TickStep == 300     \* the clock advances by this many seconds at a time

Procs == {"r1", "r2"}        \* request slots: requests in flight at once
IdStrings == {"S1", "S2"}    \* ids a client asks for in GET /result/:id
ResultInputs == {<<"S1", "A">>, <<"S1", "B">>}
                             \* <<id, subjects>> of the valid results sent
StudentInputs == {<<"S1", "N">>}
                             \* <<id, name>> of the valid students sent

(***************************************************************************)
(* Program constant: server.js line 14, CACHE_TTL (default).               *)
(***************************************************************************)
CACHE_TTL == 600

VARIABLES
    results,    \* db.collection("results"): sequence of documents, insertion order
    students,   \* db.collection("students"): sequence of documents
    nextOid,    \* per collection: the next ObjectId the driver generates
    cache,      \* Redis: key -> entry [val, exp, src]
    now,        \* the clock, in seconds
    op,         \* per request slot: the route being served
    pc,         \* per request slot: the await the handler is suspended at
    arg,        \* per request slot: req.params / req.body
    loc,        \* per request slot: the handler's local (result / resultData)
    resp,       \* per request slot: the responses sent, in order
    calls,      \* per request slot: the downstream calls issued, in order
    wrote,      \* per request slot: the time its cache write was applied, or -1
    after,      \* per request slot: the slots whose request had been answered
                \*   when this one arrived
    justIngested,
                \* the slot whose POST /addResult was answered 201 with nothing
                \*   written to the results or the cache and no time passed
                \*   since, or "none"
    boot,       \* the startup function: the await it is suspended at, or
                \*   "listening" once app.listen has been called
    mongo,      \* mongoClient: "new", "open" or "closed"
    redis,      \* redisClient: "new", "open" or "closed"
    exitCode,   \* the code process.exit was called with, or -1 while running
    sig         \* per signal: the await its handler is suspended at, and the
                \*   close operations that have completed in it, in order

\* calls, wrote, after and justIngested are instrumentation: the handlers
\* never read them.
store == <<results, students, nextOid>>
request == <<op, pc, arg, loc, resp, calls, wrote, after>>
life == <<boot, mongo, redis, exitCode, sig>>
vars == <<results, students, nextOid, cache, now,
          op, pc, arg, loc, resp, calls, wrote, after, justIngested,
          boot, mongo, redis, exitCode, sig>>

Signals == {"SIGINT", "SIGTERM"}

\* process.exit has not been called.
Running == exitCode = -1

(***************************************************************************)
(* JavaScript values and objects.  A value is a one-field record: a string *)
(* [str |-> s], an ObjectId [oid |-> n], or the hex string an ObjectId     *)
(* serialises to, [hex |-> n].  An object is a function from its own keys  *)
(* to values; a key that is absent reads as undefined.                     *)
(***************************************************************************)
Undefined == [undef |-> TRUE]
Str(s) == [str |-> s]
EmptyObj == << >>

Get(o, k) == IF k \in DOMAIN o THEN o[k] ELSE Undefined

\* JavaScript truthiness of the values a field can hold here: undefined and
\* the empty string are falsy.
Truthy(v) == v # Undefined /\ v # Str("")

(***************************************************************************)
(* JSON.  A JSON text is the sequence of its <<key, value>> members, in    *)
(* the object's key order; an ObjectId serialises to its hex string.       *)
(***************************************************************************)
FieldOrder == <<"id", "name", "subjects", "_id", "message",
               "status", "timestamp", "services", "error">>

toJSON(v) == IF "oid" \in DOMAIN v THEN [hex |-> v.oid] ELSE v

JSONstringify(o) ==
    LET keys == SelectSeq(FieldOrder, LAMBDA k : k \in DOMAIN o)
    IN  [i \in 1..Len(keys) |-> <<keys[i], toJSON(o[keys[i]])>>]

JSONparse(t) ==
    [k \in {t[i][1] : i \in 1..Len(t)} |->
        t[CHOOSE i \in 1..Len(t) : t[i][1] = k][2]]

\* res.json(x) / res.status(n).json(x): the body sent is JSON.stringify(x).
Response(status, o) == [status |-> status, body |-> JSONstringify(o)]

(***************************************************************************)
(* MongoDB.  A collection is the sequence of its documents in insertion    *)
(* order.  insertOne gives a document without _id a fresh ObjectId (the    *)
(* driver adds the field to the object it was handed) and appends it;      *)
(* findOne returns the first document that matches, or Null.               *)
(***************************************************************************)
Null == [null |-> TRUE]

WithId(doc, oid) == IF "_id" \in DOMAIN doc THEN doc ELSE doc @@ [_id |-> [oid |-> oid]]

InsertOne(coll, doc) == Append(coll, doc)

Matching(coll, id) == {i \in 1..Len(coll) : Get(coll[i], "id") = id}

\* Mutant: the newest matching document is returned.
FindOneLatest(coll, id) ==
    LET m == Matching(coll, id)
    IN  IF m = {} THEN Null
        ELSE coll[CHOOSE i \in m : \A j \in m : i >= j]

FindOne(coll, id) ==
    LET m == Matching(coll, id)
    IN  IF m = {} THEN Null
        ELSE coll[CHOOSE i \in m : \A j \in m : i <= j]

(***************************************************************************)
(* Redis.  An entry holds the string written, the time it expires and, as  *)
(* instrumentation, the route that wrote it.  SETEX key ttl value sets the *)
(* expiry to now + ttl; GET returns the string of an entry that has not    *)
(* expired and nil otherwise, and changes nothing.                         *)
(***************************************************************************)
Nil == << <<"nil", Undefined>> >>
NoEntry == [val |-> Nil, exp |-> 0, src |-> "none"]

\* `result:${id}`
CacheKey(id) == <<"result:", id>>
CacheKeys == {CacheKey(Str(s)) : s \in IdStrings}

Live(c, k, t) == c[k] # NoEntry /\ c[k].exp > t

\* Mutant: GET serves an entry whatever its expiry.
RedisGetNoExpiry(c, k, t) == c[k].val

RedisGet(c, k, t) == IF Live(c, k, t) THEN c[k].val ELSE Nil

RedisSetEx(c, k, ttl, v, t, who) ==
    [c EXCEPT ![k] = [val |-> v, exp |-> t + ttl, src |-> who]]

(***************************************************************************)
(* What clients send.                                                      *)
(***************************************************************************)
\* req.body of POST /addResult: the valid payloads (two results for one id),
\* and payloads with id or subjects absent or empty.
ResultBodies ==
    {[id |-> Str(x[1]), subjects |-> Str(x[2])] : x \in ResultInputs}
        \cup {EmptyObj, [id |-> Str("S1")], [subjects |-> Str("A")],
              [id |-> Str(""), subjects |-> Str("A")]}

\* req.body of POST /addStudent.
StudentBodies ==
    {[id |-> Str(x[1]), name |-> Str(x[2])] : x \in StudentInputs}
        \cup {EmptyObj, [id |-> Str("S1")], [name |-> Str("N")],
              [id |-> Str(""), name |-> Str("N")]}

\* Mutant: only the id is checked.
InvalidResultIdOnly(body) == ~Truthy(Get(body, "id"))

\* if (!resultData.id || !resultData.subjects)
InvalidResult(body) == ~Truthy(Get(body, "id")) \/ ~Truthy(Get(body, "subjects"))

\* if (!studentData.id || !studentData.name)
InvalidStudent(body) == ~Truthy(Get(body, "id")) \/ ~Truthy(Get(body, "name"))

ErrorObj(msg) == [error |-> Str(msg)]

\* No request has arrived.
NoRequests ==
    /\ op = [p \in Procs |-> "none"]
    /\ pc = [p \in Procs |-> "idle"]
    /\ arg = [p \in Procs |-> EmptyObj]
    /\ loc = [p \in Procs |-> EmptyObj]
    /\ resp = [p \in Procs |-> << >>]
    /\ calls = [p \in Procs |-> << >>]
    /\ wrote = [p \in Procs |-> -1]
    /\ after = [p \in Procs |-> {}]
    /\ justIngested = "none"

NoSignals == sig = [s \in Signals |-> [pc |-> "idle", done |-> << >>]]

\* The process has started up: both clients are connected and the server is
\* listening; the store and the cache are empty.
Init ==
    /\ boot = "listening"
    /\ mongo = "open"
    /\ redis = "open"
    /\ exitCode = -1
    /\ NoSignals
    /\ results = << >>
    /\ students = << >>
    /\ nextOid = [results |-> 1, students |-> 1]
    /\ cache = [k \in CacheKeys |-> NoEntry]
    /\ now = 0
    /\ NoRequests

\* A request arrives: express dispatches it to the route's handler, which
\* runs up to its first await (first) or to its response (first = "done").
Begin(p, route, input, first) ==
    /\ Running /\ boot = "listening"
    /\ pc[p] = "idle"
    /\ op' = [op EXCEPT ![p] = route]
    /\ arg' = [arg EXCEPT ![p] = input]
    /\ pc' = [pc EXCEPT ![p] = first]
    /\ calls' = [calls EXCEPT ![p] = IF first = "done" THEN << >> ELSE <<first>>]
    /\ after' = [after EXCEPT ![p] = {q \in Procs : pc[q] = "done"}]
    /\ UNCHANGED <<store, cache, now, loc, wrote, justIngested, life>>

\* The handler sends r and returns.
Finish(p, r) ==
    /\ Running
    /\ resp' = [resp EXCEPT ![p] = Append(@, r)]
    /\ pc' = [pc EXCEPT ![p] = "done"]
    /\ UNCHANGED <<calls, op, arg, after, now, life>>

\* The handler issues its next downstream call and suspends on it.
Await(p, call) ==
    /\ Running
    /\ pc' = [pc EXCEPT ![p] = call]
    /\ calls' = [calls EXCEPT ![p] = Append(@, call)]
    /\ UNCHANGED <<resp, op, arg, after, now, life>>

(***************************************************************************)
(* GET /result/:id  (server.js 135-167)                                    *)
(***************************************************************************)
StartLookup(p, s) ==
    /\ Begin(p, "lookup", [id |-> Str(s)], "get")
    /\ resp' = resp

\* Mutant: a cache hit is checked against the store before it is served.
LookupGetRevalidate(p, ok) ==
    /\ op[p] = "lookup" /\ pc[p] = "get"
    /\ IF ~ok
       THEN Finish(p, Response(500, ErrorObj("Failed to fetch result")))
       ELSE Await(p, "findOne")
    /\ UNCHANGED <<store, cache, loc, wrote, justIngested>>

\* Mutant: the cache answers one call at a time, in the order of arrival,
\* so a cache read waits while another request's cache call is outstanding.
LookupGetSerialised(p, ok) ==
    /\ op[p] = "lookup" /\ pc[p] = "get"
    /\ \A q \in Procs \ {p} : pc[q] \notin {"get", "setEx"}
    /\ LET cached == RedisGet(cache, CacheKey(arg[p].id), now)
       IN  IF ~ok
           THEN Finish(p, Response(500, ErrorObj("Failed to fetch result")))
           ELSE IF cached # Nil
           THEN Finish(p, Response(200, JSONparse(cached)))
           ELSE Await(p, "findOne")
    /\ UNCHANGED <<store, cache, loc, wrote, justIngested>>

\* await redisClient.get(...) returns or throws.
LookupGet(p, ok) ==
    /\ op[p] = "lookup" /\ pc[p] = "get"
    /\ LET cached == RedisGet(cache, CacheKey(arg[p].id), now)
       IN  IF ~ok
           THEN Finish(p, Response(500, ErrorObj("Failed to fetch result")))
           ELSE IF cached # Nil
           THEN Finish(p, Response(200, JSONparse(cached)))
           ELSE Await(p, "findOne")
    /\ UNCHANGED <<store, cache, loc, wrote, justIngested>>

\* Mutant: a lookup that finds nothing caches the miss.
LookupFindOneNegativeCache(p, ok) ==
    /\ op[p] = "lookup" /\ pc[p] = "findOne"
    /\ LET result == FindOne(results, arg[p].id)
       IN  IF ~ok
           THEN /\ Finish(p, Response(500, ErrorObj("Failed to fetch result")))
                /\ UNCHANGED <<loc, cache>>
           ELSE IF result = Null
           THEN /\ Finish(p, Response(404, ErrorObj("Result not found")))
                /\ cache' = RedisSetEx(cache, CacheKey(arg[p].id), CACHE_TTL,
                                       JSONstringify(ErrorObj("Result not found")),
                                       now, "lookup")
                /\ loc' = loc
           ELSE /\ Await(p, "setEx")
                /\ loc' = [loc EXCEPT ![p] = result]
                /\ cache' = cache
    /\ UNCHANGED <<store, wrote, justIngested>>

\* await db.collection("results").findOne({ id: studentId }) returns or throws.
LookupFindOne(p, ok) ==
    /\ op[p] = "lookup" /\ pc[p] = "findOne"
    /\ LET result == FindOne(results, arg[p].id)
       IN  IF ~ok
           THEN /\ Finish(p, Response(500, ErrorObj("Failed to fetch result")))
                /\ loc' = loc
           ELSE IF result = Null
           THEN /\ Finish(p, Response(404, ErrorObj("Result not found")))
                /\ loc' = loc
           ELSE /\ Await(p, "setEx")
                /\ loc' = [loc EXCEPT ![p] = result]
    /\ UNCHANGED <<store, cache, wrote, justIngested>>

\* Mutant: a failed cache write is ignored and the result is returned.
LookupSetExSwallow(p, ok) ==
    /\ op[p] = "lookup" /\ pc[p] = "setEx"
    /\ IF ~ok
       THEN UNCHANGED <<cache, wrote, justIngested>>
       ELSE /\ cache' = RedisSetEx(cache, CacheKey(arg[p].id), CACHE_TTL,
                                   JSONstringify(loc[p]), now, "lookup")
            /\ wrote' = [wrote EXCEPT ![p] = now]
            /\ justIngested' = "none"
    /\ Finish(p, Response(200, loc[p]))
    /\ UNCHANGED <<store, loc>>

\* Mutant: the lookup caches the result for TickStep seconds only.
LookupSetExShortTtl(p, ok) ==
    /\ op[p] = "lookup" /\ pc[p] = "setEx"
    /\ IF ~ok
       THEN /\ Finish(p, Response(500, ErrorObj("Failed to fetch result")))
            /\ UNCHANGED <<cache, wrote, justIngested>>
       ELSE /\ cache' = RedisSetEx(cache, CacheKey(arg[p].id), TickStep,
                                   JSONstringify(loc[p]), now, "lookup")
            /\ wrote' = [wrote EXCEPT ![p] = now]
            /\ justIngested' = "none"
            /\ Finish(p, Response(200, loc[p]))
    /\ UNCHANGED <<store, loc>>

\* await redisClient.setEx(...) returns or throws; then res.json(result).
LookupSetEx(p, ok) ==
    /\ op[p] = "lookup" /\ pc[p] = "setEx"
    /\ IF ~ok
       THEN /\ Finish(p, Response(500, ErrorObj("Failed to fetch result")))
            /\ UNCHANGED <<cache, wrote, justIngested>>
       ELSE /\ cache' = RedisSetEx(cache, CacheKey(arg[p].id), CACHE_TTL,
                                   JSONstringify(loc[p]), now, "lookup")
            /\ wrote' = [wrote EXCEPT ![p] = now]
            /\ justIngested' = "none"
            /\ Finish(p, Response(200, loc[p]))
    /\ UNCHANGED <<store, loc>>

(***************************************************************************)
(* POST /addResult  (server.js 170-197)                                    *)
(***************************************************************************)
PendingInserts(route) ==
    Cardinality({q \in Procs : op[q] = route /\ pc[q] = "insertOne"})

StartIngest(p, body) ==
    IF InvalidResult(body)
    THEN /\ Begin(p, "ingest", body, "done")
         /\ resp' = [resp EXCEPT ![p] =
                 Append(@, Response(400, ErrorObj("Invalid result data")))]
    ELSE /\ nextOid.results + PendingInserts("ingest") <= MaxDocs
         /\ Begin(p, "ingest", body, "insertOne")
         /\ resp' = resp

\* Mutant: a failed insert is ignored and the handler goes on to the cache.
IngestInsertOneSwallow(p, ok) ==
    /\ op[p] = "ingest" /\ pc[p] = "insertOne"
    /\ LET resultData == WithId(arg[p], nextOid.results)
       IN  /\ results' = IF ok THEN InsertOne(results, resultData) ELSE results
           /\ nextOid' = [nextOid EXCEPT !.results = @ + 1]
           /\ loc' = [loc EXCEPT ![p] = resultData]
           /\ justIngested' = "none"
           /\ Await(p, "setEx")
    /\ UNCHANGED <<students, cache, wrote>>

\* Mutant: a result whose id the collection already holds replaces the
\* stored result.
IngestInsertOneUpsert(p, ok) ==
    /\ op[p] = "ingest" /\ pc[p] = "insertOne"
    /\ IF ~ok
       THEN /\ Finish(p, Response(500, ErrorObj("Failed to add result")))
            /\ UNCHANGED <<results, nextOid, loc, justIngested>>
       ELSE LET resultData == WithId(arg[p], nextOid.results)
                m == Matching(results, resultData.id)
            IN  /\ results' = IF m = {} THEN InsertOne(results, resultData)
                              ELSE [results EXCEPT ![CHOOSE i \in m : TRUE] = resultData]
                /\ nextOid' = [nextOid EXCEPT !.results = @ + 1]
                /\ loc' = [loc EXCEPT ![p] = resultData]
                /\ justIngested' = "none"
                /\ Await(p, "setEx")
    /\ UNCHANGED <<students, cache, wrote>>

\* await db.collection("results").insertOne(resultData) returns or throws.
IngestInsertOne(p, ok) ==
    /\ op[p] = "ingest" /\ pc[p] = "insertOne"
    /\ IF ~ok
       THEN /\ Finish(p, Response(500, ErrorObj("Failed to add result")))
            /\ UNCHANGED <<results, nextOid, loc, justIngested>>
       ELSE LET resultData == WithId(arg[p], nextOid.results)
            IN  /\ results' = InsertOne(results, resultData)
                /\ nextOid' = [nextOid EXCEPT !.results = @ + 1]
                /\ loc' = [loc EXCEPT ![p] = resultData]
                /\ justIngested' = "none"
                /\ Await(p, "setEx")
    /\ UNCHANGED <<students, cache, wrote>>

\* Mutant: the ingest answers 201 without writing the cache.
IngestSetExNoWrite(p, ok) ==
    /\ op[p] = "ingest" /\ pc[p] = "setEx"
    /\ IF ~ok
       THEN /\ Finish(p, Response(500, ErrorObj("Failed to add result")))
            /\ justIngested' = justIngested
       ELSE /\ justIngested' = p
            /\ Finish(p, Response(201,
                    [message |-> Str("Result added"), id |-> loc[p]._id]))
    /\ UNCHANGED <<store, loc, cache, wrote>>

\* await redisClient.setEx(...) returns or throws; then res.status(201).
IngestSetEx(p, ok) ==
    /\ op[p] = "ingest" /\ pc[p] = "setEx"
    /\ IF ~ok
       THEN /\ Finish(p, Response(500, ErrorObj("Failed to add result")))
            /\ UNCHANGED <<cache, wrote, justIngested>>
       ELSE /\ cache' = RedisSetEx(cache, CacheKey(loc[p].id), CACHE_TTL,
                                   JSONstringify(loc[p]), now, "ingest")
            /\ wrote' = [wrote EXCEPT ![p] = now]
            /\ justIngested' = p
            /\ Finish(p, Response(201,
                    [message |-> Str("Result added"), id |-> loc[p]._id]))
    /\ UNCHANGED <<store, loc>>

(***************************************************************************)
(* GET /getStudents, POST /addStudent  (server.js 95-132)                  *)
(***************************************************************************)
StartGetStudents(p) ==
    /\ Begin(p, "getStudents", EmptyObj, "find")
    /\ resp' = resp

\* await db.collection("students").find({}).toArray() returns or throws.
GetStudentsFind(p, ok) ==
    /\ op[p] = "getStudents" /\ pc[p] = "find"
    /\ IF ~ok
       THEN Finish(p, Response(500, ErrorObj("Failed to fetch students")))
       ELSE Finish(p, [status |-> 200,
                       body |-> [i \in 1..Len(students) |-> JSONstringify(students[i])]])
    /\ UNCHANGED <<store, cache, loc, wrote, justIngested>>

StartAddStudent(p, body) ==
    IF InvalidStudent(body)
    THEN /\ Begin(p, "addStudent", body, "done")
         /\ resp' = [resp EXCEPT ![p] =
                 Append(@, Response(400, ErrorObj("Invalid student data")))]
    ELSE /\ nextOid.students + PendingInserts("addStudent") <= MaxStudents
         /\ Begin(p, "addStudent", body, "insertOne")
         /\ resp' = resp

\* Mutant: a student whose id the collection already holds is not inserted
\* again.
AddStudentInsertOneDedup(p, ok) ==
    /\ op[p] = "addStudent" /\ pc[p] = "insertOne"
    /\ IF ~ok
       THEN /\ Finish(p, Response(500, ErrorObj("Failed to add student")))
            /\ UNCHANGED <<students, nextOid, loc>>
       ELSE LET studentData == WithId(arg[p], nextOid.students)
            IN  /\ students' = IF Matching(students, studentData.id) = {}
                               THEN InsertOne(students, studentData)
                               ELSE students
                /\ nextOid' = [nextOid EXCEPT !.students = @ + 1]
                /\ loc' = [loc EXCEPT ![p] = studentData]
                /\ Finish(p, Response(201,
                        [message |-> Str("Student added"), id |-> studentData._id]))
    /\ UNCHANGED <<results, cache, wrote, justIngested>>

\* await db.collection("students").insertOne(studentData) returns or throws.
AddStudentInsertOne(p, ok) ==
    /\ op[p] = "addStudent" /\ pc[p] = "insertOne"
    /\ IF ~ok
       THEN /\ Finish(p, Response(500, ErrorObj("Failed to add student")))
            /\ UNCHANGED <<students, nextOid, loc>>
       ELSE LET studentData == WithId(arg[p], nextOid.students)
            IN  /\ students' = InsertOne(students, studentData)
                /\ nextOid' = [nextOid EXCEPT !.students = @ + 1]
                /\ loc' = [loc EXCEPT ![p] = studentData]
                /\ Finish(p, Response(201,
                        [message |-> Str("Student added"), id |-> studentData._id]))
    /\ UNCHANGED <<results, cache, wrote, justIngested>>

(***************************************************************************)
(* GET /health  (server.js 200-224)                                        *)
(***************************************************************************)
\* new Date().toISOString()
Timestamp(t) == [time |-> t]

\* err.message of the error the awaited call threw.
ErrMessage(call) == [thrownBy |-> call]

Healthy(t) ==
    [status |-> Str("healthy"), timestamp |-> Timestamp(t),
     services |-> [obj |-> <<<<"mongodb", Str("connected")>>,
                             <<"redis", Str("connected")>>>>]]

Unhealthy(t, call) ==
    [status |-> Str("unhealthy"), timestamp |-> Timestamp(t),
     error |-> ErrMessage(call)]

StartHealth(p) ==
    /\ Begin(p, "health", EmptyObj, "mongoPing")
    /\ resp' = resp

\* Mutant: a failed store ping is ignored.
HealthMongoPingSwallow(p, ok) ==
    /\ op[p] = "health" /\ pc[p] = "mongoPing"
    /\ Await(p, "redisPing")
    /\ UNCHANGED <<store, cache, loc, wrote, justIngested>>

\* await mongoClient.db(DB_NAME).admin().ping() returns or throws.
HealthMongoPing(p, ok) ==
    /\ op[p] = "health" /\ pc[p] = "mongoPing"
    /\ IF ~ok
       THEN Finish(p, Response(503, Unhealthy(now, "mongoPing")))
       ELSE Await(p, "redisPing")
    /\ UNCHANGED <<store, cache, loc, wrote, justIngested>>

\* await redisClient.ping() returns or throws; then res.json.
HealthRedisPing(p, ok) ==
    /\ op[p] = "health" /\ pc[p] = "redisPing"
    /\ IF ~ok
       THEN Finish(p, Response(503, Unhealthy(now, "redisPing")))
       ELSE Finish(p, Response(200, Healthy(now)))
    /\ UNCHANGED <<store, cache, loc, wrote, justIngested>>

(***************************************************************************)
(* The environment: the response has gone out and the slot serves the next *)
(* request; time passes.                                                   *)
(***************************************************************************)
Recycle(p) ==
    /\ Running
    /\ pc[p] = "done"
    /\ op' = [op EXCEPT ![p] = "none"]
    /\ pc' = [pc EXCEPT ![p] = "idle"]
    /\ arg' = [arg EXCEPT ![p] = EmptyObj]
    /\ loc' = [loc EXCEPT ![p] = EmptyObj]
    /\ resp' = [resp EXCEPT ![p] = << >>]
    /\ calls' = [calls EXCEPT ![p] = << >>]
    /\ wrote' = [wrote EXCEPT ![p] = -1]
    /\ after' = [q \in Procs |-> IF q = p THEN {} ELSE after[q] \ {p}]
    /\ justIngested' = IF justIngested = p THEN "none" ELSE justIngested
    /\ UNCHANGED <<store, cache, now, life>>

Tick ==
    /\ now + TickStep <= MaxTicks * TickStep
    /\ now' = now + TickStep
    /\ justIngested' = "none"
    /\ UNCHANGED <<store, cache, request, life>>

\* Outside the program: the results with id s are removed from the store by
\* hand.
RemoveResult(s) ==
    /\ Matching(results, Str(s)) # {}
    /\ results' = SelectSeq(results, LAMBDA d : Get(d, "id") # Str(s))
    /\ justIngested' = "none"
    /\ UNCHANGED <<students, nextOid, cache, now, request, life>>

(***************************************************************************)
(* The process  (server.js 70-90, 250-298).  The startup function awaits   *)
(* connectDB, which awaits mongoClient.connect() and then                  *)
(* redisClient.connect() and calls process.exit(1) when either throws, and *)
(* then calls app.listen.  The SIGINT and SIGTERM handlers are registered  *)
(* before startup begins; each awaits mongoClient.close() and then         *)
(* redisClient.quit(), and exits with 0, or with 1 when either throws.     *)
(* Nothing runs once process.exit has been called.                         *)
(***************************************************************************)
\* The process has been launched: the startup function has run up to
\* await mongoClient.connect().  The store holds a result that an earlier
\* run of the process ingested; the cache is empty.
InitLaunch ==
    /\ boot = "connectMongo"
    /\ mongo = "new"
    /\ redis = "new"
    /\ exitCode = -1
    /\ NoSignals
    /\ results = <<WithId([id |-> Str("S1"), subjects |-> Str("A")], 1)>>
    /\ students = << >>
    /\ nextOid = [results |-> 2, students |-> 1]
    /\ cache = [k \in CacheKeys |-> NoEntry]
    /\ now = 0
    /\ NoRequests

\* process.exit(code)
Exit(code) == exitCode' = code

\* await mongoClient.connect() returns or throws.
ConnectMongo(ok) ==
    /\ Running /\ boot = "connectMongo"
    /\ IF ok
       THEN /\ mongo' = "open"
            /\ boot' = "connectRedis"
            /\ UNCHANGED exitCode
       ELSE /\ Exit(1)
            /\ UNCHANGED <<mongo, boot>>
    /\ UNCHANGED <<redis, sig, store, cache, now, request, justIngested>>

\* await redisClient.connect() returns or throws; connectDB returns and the
\* startup function calls app.listen.
ConnectRedis(ok) ==
    /\ Running /\ boot = "connectRedis"
    /\ IF ok
       THEN /\ redis' = "open"
            /\ boot' = "listening"
            /\ UNCHANGED exitCode
       ELSE /\ Exit(1)
            /\ UNCHANGED <<redis, boot>>
    /\ UNCHANGED <<mongo, sig, store, cache, now, request, justIngested>>

\* The signal s is delivered: its handler runs up to
\* await mongoClient.close().
Signal(s) ==
    /\ Running /\ sig[s].pc = "idle"
    /\ sig' = [sig EXCEPT ![s].pc = "close"]
    /\ UNCHANGED <<boot, mongo, redis, exitCode, store, cache, now, request,
                   justIngested>>

\* Mutant: a failed close is ignored and the handler goes on to quit.
ShutdownCloseSwallow(s, ok) ==
    /\ Running /\ sig[s].pc = "close"
    /\ mongo' = IF ok THEN "closed" ELSE mongo
    /\ sig' = [sig EXCEPT ![s] = [pc |-> "quit",
                   done |-> IF ok THEN Append(@.done, "close") ELSE @.done]]
    /\ UNCHANGED <<exitCode, boot, redis, store, cache, now, request, justIngested>>

\* await mongoClient.close() returns or throws.
ShutdownClose(s, ok) ==
    /\ Running /\ sig[s].pc = "close"
    /\ IF ok
       THEN /\ mongo' = "closed"
            /\ sig' = [sig EXCEPT ![s] = [pc |-> "quit", done |-> Append(@.done, "close")]]
            /\ UNCHANGED exitCode
       ELSE /\ Exit(1)
            /\ UNCHANGED <<mongo, sig>>
    /\ UNCHANGED <<boot, redis, store, cache, now, request, justIngested>>

\* await redisClient.quit() returns or throws; then process.exit.
ShutdownQuit(s, ok) ==
    /\ Running /\ sig[s].pc = "quit"
    /\ IF ok
       THEN /\ redis' = "closed"
            /\ sig' = [sig EXCEPT ![s] = [pc |-> "exit", done |-> Append(@.done, "quit")]]
            /\ Exit(0)
       ELSE /\ Exit(1)
            /\ UNCHANGED <<redis, sig>>
    /\ UNCHANGED <<boot, mongo, store, cache, now, request, justIngested>>

\* The result routes, under passing time.
Next ==
    \/ \E p \in Procs, s \in IdStrings : StartLookup(p, s)
    \/ \E p \in Procs, ok \in BOOLEAN : LookupGet(p, ok)
    \/ \E p \in Procs, ok \in BOOLEAN : LookupFindOne(p, ok)
    \/ \E p \in Procs, ok \in BOOLEAN : LookupSetEx(p, ok)
    \/ \E p \in Procs, body \in ResultBodies : StartIngest(p, body)
    \/ \E p \in Procs, ok \in BOOLEAN : IngestInsertOne(p, ok)
    \/ \E p \in Procs, ok \in BOOLEAN : IngestSetEx(p, ok)
    \/ \E p \in Procs : Recycle(p)
    \/ Tick

Spec == Init /\ [][Next]_vars

\* The result routes and removals made by hand, with the clock standing
\* still.
NextOutOfBand ==
    \/ \E p \in Procs, s \in IdStrings : StartLookup(p, s)
    \/ \E p \in Procs, ok \in BOOLEAN : LookupGet(p, ok)
    \/ \E p \in Procs, ok \in BOOLEAN : LookupFindOne(p, ok)
    \/ \E p \in Procs, ok \in BOOLEAN : LookupSetEx(p, ok)
    \/ \E p \in Procs, body \in ResultBodies : StartIngest(p, body)
    \/ \E p \in Procs, ok \in BOOLEAN : IngestInsertOne(p, ok)
    \/ \E p \in Procs, ok \in BOOLEAN : IngestSetEx(p, ok)
    \/ \E p \in Procs : Recycle(p)
    \/ \E s \in IdStrings : RemoveResult(s)

SpecOutOfBand == Init /\ [][NextOutOfBand]_vars

\* Every route, with the clock standing still.
NextAll ==
    \/ \E p \in Procs, s \in IdStrings : StartLookup(p, s)
    \/ \E p \in Procs, ok \in BOOLEAN : LookupGet(p, ok)
    \/ \E p \in Procs, ok \in BOOLEAN : LookupFindOne(p, ok)
    \/ \E p \in Procs, ok \in BOOLEAN : LookupSetEx(p, ok)
    \/ \E p \in Procs, body \in ResultBodies : StartIngest(p, body)
    \/ \E p \in Procs, ok \in BOOLEAN : IngestInsertOne(p, ok)
    \/ \E p \in Procs, ok \in BOOLEAN : IngestSetEx(p, ok)
    \/ \E p \in Procs : StartGetStudents(p)
    \/ \E p \in Procs, ok \in BOOLEAN : GetStudentsFind(p, ok)
    \/ \E p \in Procs, body \in StudentBodies : StartAddStudent(p, body)
    \/ \E p \in Procs, ok \in BOOLEAN : AddStudentInsertOne(p, ok)
    \/ \E p \in Procs : Recycle(p)

SpecAll == Init /\ [][NextAll]_vars

\* The result routes when the downstream calls of the requests in slot Hung
\* never return: those requests stay suspended at their await.  The calls of
\* the other requests do return, and the event loop then runs the handler's
\* continuation.
Hung == "r1"

Suspended(p) == pc[p] \in {"get", "findOne", "setEx", "insertOne"}

NextIsolation ==
    \/ \E p \in Procs, s \in IdStrings : StartLookup(p, s)
    \/ \E p \in Procs \ {Hung}, ok \in BOOLEAN : LookupGet(p, ok)
    \/ \E p \in Procs \ {Hung}, ok \in BOOLEAN : LookupFindOne(p, ok)
    \/ \E p \in Procs \ {Hung}, ok \in BOOLEAN : LookupSetEx(p, ok)
    \/ \E p \in Procs, body \in ResultBodies : StartIngest(p, body)
    \/ \E p \in Procs \ {Hung}, ok \in BOOLEAN : IngestInsertOne(p, ok)
    \/ \E p \in Procs \ {Hung}, ok \in BOOLEAN : IngestSetEx(p, ok)
    \/ \E p \in Procs : Recycle(p)

CallsReturn ==
    \A p \in Procs \ {Hung} :
        /\ WF_vars(\E ok \in BOOLEAN : LookupGet(p, ok))
        /\ WF_vars(\E ok \in BOOLEAN : LookupFindOne(p, ok))
        /\ WF_vars(\E ok \in BOOLEAN : LookupSetEx(p, ok))
        /\ WF_vars(\E ok \in BOOLEAN : IngestInsertOne(p, ok))
        /\ WF_vars(\E ok \in BOOLEAN : IngestSetEx(p, ok))

SpecIsolation == Init /\ [][NextIsolation]_vars /\ CallsReturn

\* The health probe beside the result routes, with the clock standing still.
NextHealth ==
    \/ \E p \in Procs : StartHealth(p)
    \/ \E p \in Procs, ok \in BOOLEAN : HealthMongoPing(p, ok)
    \/ \E p \in Procs, ok \in BOOLEAN : HealthRedisPing(p, ok)
    \/ \E p \in Procs, s \in IdStrings : StartLookup(p, s)
    \/ \E p \in Procs, ok \in BOOLEAN : LookupGet(p, ok)
    \/ \E p \in Procs, ok \in BOOLEAN : LookupFindOne(p, ok)
    \/ \E p \in Procs, ok \in BOOLEAN : LookupSetEx(p, ok)
    \/ \E p \in Procs, body \in ResultBodies : StartIngest(p, body)
    \/ \E p \in Procs, ok \in BOOLEAN : IngestInsertOne(p, ok)
    \/ \E p \in Procs, ok \in BOOLEAN : IngestSetEx(p, ok)
    \/ \E p \in Procs : Recycle(p)

SpecHealth == Init /\ [][NextHealth]_vars

\* The process from launch to exit, serving GET /result/:id.
NextLife ==
    \/ \E ok \in BOOLEAN : ConnectMongo(ok)
    \/ \E ok \in BOOLEAN : ConnectRedis(ok)
    \/ \E s \in Signals : Signal(s)
    \/ \E s \in Signals, ok \in BOOLEAN : ShutdownClose(s, ok)
    \/ \E s \in Signals, ok \in BOOLEAN : ShutdownQuit(s, ok)
    \/ \E p \in Procs, s \in IdStrings : StartLookup(p, s)
    \/ \E p \in Procs, ok \in BOOLEAN : LookupGet(p, ok)
    \/ \E p \in Procs, ok \in BOOLEAN : LookupFindOne(p, ok)
    \/ \E p \in Procs, ok \in BOOLEAN : LookupSetEx(p, ok)
    \/ \E p \in Procs : Recycle(p)

SpecLife == InitLaunch /\ [][NextLife]_vars

(***************************************************************************)
(* Vocabulary of the properties.                                           *)
(***************************************************************************)
Answered(p) == pc[p] = "done" /\ Len(resp[p]) = 1
Status(p) == resp[p][1].status
Body(p) == resp[p][1].body
Key(p) == CacheKey(arg[p].id)

\* The fields of a returned document other than the store's _id.
Payload(text) ==
    LET doc == JSONparse(text)
    IN  [k \in DOMAIN doc \ {"_id"} |-> doc[k]]

\* A lookup that missed the cache, found the document in the store, wrote
\* the cache entry and answered 200.
ColdSuccess(p) ==
    /\ op[p] = "lookup" /\ Answered(p) /\ Status(p) = 200
    /\ calls[p] = <<"get", "findOne", "setEx">>

\* A lookup answered 200 from the cache alone.
HitSuccess(p) ==
    /\ op[p] = "lookup" /\ Answered(p) /\ Status(p) = 200
    /\ calls[p] = <<"get">>

\* An ingest answered 201.
IngestSuccess(p) == op[p] = "ingest" /\ Answered(p) /\ Status(p) = 201

(***************************************************************************)
(* C1.  Round trip: a successful POST /addResult of r followed immediately *)
(* by GET /result/<r.id> returns a document equal to r, whatever the store *)
(* and the cache held for that id before.                                  *)
(*                                                                         *)
(* As stated (C1_RoundTripExact: the body is the serialisation of r as it  *)
(* was sent) this fails: the document returned also carries the _id the    *)
(* store assigned.  C1_RoundTrip is the amended claim: the lookup is       *)
(* answered 200 at its cache read, the body holds every field of r with    *)
(* r's value, and the only other field is _id, equal to the id the ingest  *)
(* reported in its 201 response.                                           *)
(***************************************************************************)
ImmediateLookup(p, q) ==
    /\ LookupGet(p, TRUE)
    /\ q # p /\ justIngested = q /\ q \in after[p]
    /\ arg[p].id = arg[q].id

C1_RoundTripExact ==
    [][\A p, q \in Procs :
          ImmediateLookup(p, q) => resp'[p] = <<Response(200, arg[q])>>]_vars

C1_RoundTrip ==
    [][\A p, q \in Procs :
          ImmediateLookup(p, q) =>
              /\ Len(resp'[p]) = 1 /\ resp'[p][1].status = 200
              /\ LET doc == JSONparse(resp'[p][1].body)
                 IN  /\ DOMAIN doc = DOMAIN arg[q] \cup {"_id"}
                     /\ \A k \in DOMAIN arg[q] : doc[k] = arg[q][k]
                     /\ doc["_id"] = JSONparse(Body(q))["id"]]_vars

\* An ingest of a result whose id the store and the cache already hold an
\* older result for has been answered, and the lookup that followed it
\* immediately has been answered 200 with the new subjects.
C1_Witness ==
    \E p, q \in Procs :
        /\ justIngested = q /\ IngestSuccess(q) /\ q \in after[p]
        /\ HitSuccess(p) /\ arg[p].id = arg[q].id
        /\ Cardinality(Matching(results, arg[q].id)) = 2
        /\ JSONparse(Body(p))["subjects"] = arg[q].subjects
        /\ Get(results[1], "subjects") # arg[q].subjects

(***************************************************************************)
(* C2.  Cache population: after a lookup of s that misses the cache, finds *)
(* the document in the store and succeeds, every later lookup of s before  *)
(* the entry's TTL elapses issues no store query and returns the same      *)
(* document as the first lookup.                                           *)
(*                                                                         *)
(* As stated (C2_SameDocument, for the later lookups whose cache read is   *)
(* answered, and comparing the documents without their _id) this fails:    *)
(* an ingest for s in between overwrites the entry, and the later lookup   *)
(* returns the ingested document.  C2_CachePopulation                      *)
(* is the amended claim: the later lookup is answered 200 at its cache     *)
(* read, with no store query, and its document is the first lookup's       *)
(* unless an ingest wrote the entry last, in which case it is a stored     *)
(* result with that id.                                                    *)
(***************************************************************************)
LaterLookupInWindow(p, first) ==
    /\ LookupGet(p, TRUE)
    /\ first # p /\ first \in after[p] /\ ColdSuccess(first)
    /\ arg[first].id = arg[p].id
    /\ now < wrote[first] + CACHE_TTL

C2_SameDocument ==
    [][\A p, first \in Procs :
          LaterLookupInWindow(p, first) =>
              /\ pc'[p] = "done" /\ calls'[p] = <<"get">>
              /\ Len(resp'[p]) = 1 /\ resp'[p][1].status = 200
              /\ Payload(resp'[p][1].body) = Payload(Body(first))]_vars

C2_CachePopulation ==
    [][\A p, first \in Procs :
          LaterLookupInWindow(p, first) =>
              /\ pc'[p] = "done" /\ calls'[p] = <<"get">>
              /\ Len(resp'[p]) = 1 /\ resp'[p][1].status = 200
              /\ IF cache[Key(p)].src = "ingest"
                 THEN \E i \in Matching(results, arg[p].id) :
                          resp'[p][1].body = JSONstringify(results[i])
                 ELSE resp'[p] = resp[first]]_vars

\* A cold lookup has been answered, time has passed, and a later lookup of
\* the same id has been answered from the cache with the same document.
C2_Witness ==
    \E p, first \in Procs :
        /\ first \in after[p] /\ ColdSuccess(first) /\ HitSuccess(p)
        /\ arg[first].id = arg[p].id
        /\ wrote[first] < now /\ now < wrote[first] + CACHE_TTL
        /\ Body(p) = Body(first)
        /\ cache[Key(p)].src = "lookup"

(***************************************************************************)
(* C3.  TTL expiry: every cache entry is written with expiry = write time  *)
(* + CACHE_TTL, by lookup and by ingest alike, and a read never extends    *)
(* it; an entry whose TTL has elapsed is not served, and the lookup that   *)
(* finds it goes on to query the store.                                    *)
(***************************************************************************)
C3_TtlExpiry ==
    [][/\ \A k \in CacheKeys :
              cache'[k] # cache[k] => cache'[k].exp = now + CACHE_TTL
       /\ \A p \in Procs :
              /\ LookupSetEx(p, TRUE) => cache'[Key(p)].exp = now + CACHE_TTL
              /\ IngestSetEx(p, TRUE) =>
                     cache'[CacheKey(loc[p].id)].exp = now + CACHE_TTL
              /\ \A ok \in BOOLEAN : LookupGet(p, ok) => cache' = cache
              /\ (/\ LookupGet(p, TRUE)
                  /\ cache[Key(p)] # NoEntry
                  /\ cache[Key(p)].exp <= now)
                     => /\ pc'[p] = "findOne"
                        /\ resp'[p] = << >>
                        /\ calls'[p] = <<"get", "findOne">>]_vars

\* An ingest wrote the entry, its TTL elapsed with no write in between, and
\* a later lookup of that id went to the store and wrote the entry anew.
C3_Witness ==
    \E p, q \in Procs :
        /\ q \in after[p] /\ IngestSuccess(q) /\ ColdSuccess(p)
        /\ arg[p].id = arg[q].id
        /\ wrote[p] = wrote[q] + CACHE_TTL
        /\ cache[Key(p)].exp = wrote[p] + CACHE_TTL

(***************************************************************************)
(* C4.  NotFound: when the store holds no result for s and the cache holds *)
(* no live entry for s, a lookup of s goes to the store, is answered 404   *)
(* "Result not found" and writes nothing to the cache: the cache has no    *)
(* live entry for s afterwards, so a repeated lookup queries the store     *)
(* again.                                                                  *)
(***************************************************************************)
C4_NotFound ==
    [][\A p \in Procs :
          /\ (/\ LookupGet(p, TRUE)
              /\ Matching(results, arg[p].id) = {}
              /\ ~Live(cache, Key(p), now))
                 => /\ pc'[p] = "findOne"
                    /\ cache' = cache
          /\ (/\ LookupFindOne(p, TRUE)
              /\ Matching(results, arg[p].id) = {})
                 => /\ resp'[p] = <<Response(404, ErrorObj("Result not found"))>>
                    /\ pc'[p] = "done"
                    /\ cache' = cache
                    /\ ~Live(cache', Key(p), now')
                    /\ wrote'[p] = -1]_vars

\* Two lookups of an id the store has no result for, one after the other,
\* have both queried the store and both been answered 404.
C4_Witness ==
    \E p, q \in Procs :
        /\ q \in after[p]
        /\ \A r \in {p, q} :
              /\ op[r] = "lookup" /\ Answered(r) /\ Status(r) = 404
              /\ calls[r] = <<"get", "findOne">>
        /\ arg[p].id = arg[q].id
        /\ cache[Key(p)] = NoEntry

(***************************************************************************)
(* C5.  Validation without side effects: an ingest whose payload lacks id, *)
(* or lacks subjects, is answered 400 "Invalid result data" without any    *)
(* downstream call: the results collection and every cache entry are the   *)
(* same after the request as before it.                                    *)
(***************************************************************************)
C5_Validation ==
    [][\A p \in Procs, body \in ResultBodies :
          (/\ StartIngest(p, body)
           /\ ("id" \notin DOMAIN body \/ "subjects" \notin DOMAIN body))
              => /\ resp'[p] = <<Response(400, ErrorObj("Invalid result data"))>>
                 /\ pc'[p] = "done"
                 /\ calls'[p] = << >>
                 /\ results' = results
                 /\ cache' = cache]_vars

\* A payload with an id and no subjects has been answered 400 while the
\* store and the cache hold a result.
C5_Witness ==
    \E p \in Procs :
        /\ op[p] = "ingest" /\ Answered(p) /\ Status(p) = 400
        /\ calls[p] = << >>
        /\ "id" \in DOMAIN arg[p] /\ "subjects" \notin DOMAIN arg[p]
        /\ results # << >>
        /\ \E k \in CacheKeys : Live(cache, k, now)

(***************************************************************************)
(* C6.  A cache hit short-circuits the store: whenever the cache holds a   *)
(* live entry for s, a lookup of s whose cache read is answered returns    *)
(* 200 with the cached document and issues no store call, so the outcome   *)
(* is the same whatever the store holds and whether or not it answers.     *)
(* Checked with results being removed from the store by hand.              *)
(***************************************************************************)
C6_HitShortCircuit ==
    [][\A p \in Procs :
          (LookupGet(p, TRUE) /\ Live(cache, Key(p), now))
              => /\ resp'[p] = <<[status |-> 200, body |-> cache[Key(p)].val]>>
                 /\ pc'[p] = "done"
                 /\ calls'[p] = <<"get">>
                 /\ store' = store]_vars

\* A lookup has been answered from the cache although the store no longer
\* holds a result with that id, while the store query of another lookup
\* has failed.
C6_Witness ==
    \E p, q \in Procs :
        /\ HitSuccess(p)
        /\ Matching(results, arg[p].id) = {}
        /\ op[q] = "lookup" /\ Answered(q) /\ Status(q) = 500
        /\ calls[q] = <<"get", "findOne">>

(***************************************************************************)
(* C7.  Cache-entry invariant: under any interleaving of lookups and       *)
(* ingests and any downstream failures, every write of a cache entry       *)
(* result:<id> writes the serialisation of a result with that id that is   *)
(* in the results collection at that moment, so every entry holds one;     *)
(* an ingest whose store insert fails is answered without a cache write.   *)
(***************************************************************************)
SerialisesStored(k, text, coll) ==
    \E i \in 1..Len(coll) :
        /\ CacheKey(Get(coll[i], "id")) = k
        /\ text = JSONstringify(coll[i])

C7_CacheEntries ==
    /\ [](\A k \in CacheKeys :
              cache[k] # NoEntry => SerialisesStored(k, cache[k].val, results))
    /\ [][/\ \A k \in CacheKeys :
                 cache'[k] # cache[k] =>
                     SerialisesStored(k, cache'[k].val, results)
          /\ \A p \in Procs :
                 IngestInsertOne(p, FALSE) =>
                     /\ pc'[p] = "done" /\ resp'[p][1].status = 500
                     /\ calls'[p] = <<"insertOne">>
                     /\ cache' = cache /\ results' = results]_vars

\* The cache holds the serialisation of the second of two stored results
\* with one id, and an ingest whose insert failed has been answered.
C7_Witness ==
    \E p \in Procs, k \in CacheKeys :
        /\ Len(results) = 2
        /\ Live(cache, k, now) /\ cache[k].val = JSONstringify(results[2])
        /\ op[p] = "ingest" /\ Answered(p) /\ Status(p) = 500
        /\ calls[p] = <<"insertOne">>

(***************************************************************************)
(* C8.  Ingest with a failed cache write: when the store insert of r       *)
(* succeeds and the following cache write fails, nothing is rolled back    *)
(* (r stays in the store, the request is answered 500), and a later lookup *)
(* of r.id that falls back to the store, its downstream calls succeeding,  *)
(* returns r.                                                              *)
(*                                                                         *)
(* The code does not do this when the store already holds a result with    *)
(* that id: findOne returns that older result.                             *)
(***************************************************************************)
CacheWriteFailed(q) ==
    /\ op[q] = "ingest" /\ Answered(q) /\ Status(q) = 500
    /\ calls[q] = <<"insertOne", "setEx">>

C8_FallbackReturnsR ==
    \A q \in Procs :
        CacheWriteFailed(q) =>
            /\ \E i \in 1..Len(results) : results[i] = loc[q]
            /\ \A p \in Procs :
                   (/\ q \in after[p]
                    /\ op[p] = "lookup" /\ Answered(p) /\ Status(p) # 500
                    /\ Len(calls[p]) >= 2
                    /\ arg[p].id = arg[q].id)
                       => /\ Status(p) = 200
                          /\ Body(p) = JSONstringify(loc[q])

(***************************************************************************)
(* C9.  Benign redundant population: lookups of one id that run            *)
(* concurrently on a cold cache may each miss and each write the entry;    *)
(* all of them that find the document return the same document, and the    *)
(* entry left by the last of their writes equals it.                       *)
(***************************************************************************)
C9_BenignRedundant ==
    \A p, q \in Procs :
        (ColdSuccess(p) /\ ColdSuccess(q) /\ arg[p].id = arg[q].id)
            => /\ Body(p) = Body(q)
               /\ cache[Key(p)].src = "lookup" => cache[Key(p)].val = Body(p)

\* Two lookups of one id, neither begun after the other was answered, have
\* both missed the cache, both written the entry and been answered, and the
\* entry is theirs.
C9_Witness ==
    \E p, q \in Procs :
        /\ p # q /\ ColdSuccess(p) /\ ColdSuccess(q)
        /\ arg[p].id = arg[q].id
        /\ p \notin after[q] /\ q \notin after[p]
        /\ cache[Key(p)].src = "lookup" /\ cache[Key(p)].val = Body(p)
        /\ Len(results) = 2

(***************************************************************************)
(* C10.  Error translation: every request to /getStudents, /addStudent,    *)
(* /result/:id and /addResult gets exactly one response; whichever         *)
(* downstream call fails, the handler answers 500 with its route's error   *)
(* message and nothing else, at once: no retry, no further call, no write, *)
(* and for a lookup also when the cache read fails and when the cache      *)
(* write fails after the store found the document.                         *)
(***************************************************************************)
Failure(p, msg) ==
    /\ resp'[p] = <<Response(500, ErrorObj(msg))>>
    /\ DOMAIN JSONparse(resp'[p][1].body) = {"error"}
    /\ pc'[p] = "done"
    /\ calls'[p] = calls[p]
    /\ store' = store /\ cache' = cache

C10_ErrorTranslation ==
    /\ [](\A p \in Procs :
              /\ Len(resp[p]) <= 1
              /\ pc[p] = "done" <=> Len(resp[p]) = 1)
    /\ [][\A p \in Procs :
              /\ (\/ LookupGet(p, FALSE) \/ LookupFindOne(p, FALSE)
                  \/ LookupSetEx(p, FALSE))
                     => Failure(p, "Failed to fetch result")
              /\ (IngestInsertOne(p, FALSE) \/ IngestSetEx(p, FALSE))
                     => Failure(p, "Failed to add result")
              /\ GetStudentsFind(p, FALSE) => Failure(p, "Failed to fetch students")
              /\ AddStudentInsertOne(p, FALSE) => Failure(p, "Failed to add student")]_vars

\* A lookup whose store query found the document and whose cache write
\* failed has been answered 500, and so has an /addStudent whose insert
\* failed.
C10_Witness ==
    \E p, q \in Procs :
        /\ op[p] = "lookup" /\ Answered(p) /\ Status(p) = 500
        /\ calls[p] = <<"get", "findOne", "setEx">>
        /\ loc[p] = results[1]
        /\ op[q] = "addStudent" /\ Answered(q) /\ Status(q) = 500

(***************************************************************************)
(* C11.  Process lifecycle exit codes: a startup connection to the store   *)
(* or to the cache that fails ends the process with exit code 1, before    *)
(* the server listens; the process exits with code 0 only from a SIGINT or *)
(* SIGTERM handler in which mongoClient.close() and then                   *)
(* redisClient.quit() have both completed, so in every run that ends with  *)
(* exit code 0 both close operations completed before the exit.  Nothing   *)
(* runs after the exit.                                                    *)
(***************************************************************************)
C11_ExitCodes ==
    /\ [](/\ exitCode \in {-1, 0, 1}
          /\ exitCode = 0 =>
                 /\ \E s \in Signals : sig[s].done = <<"close", "quit">>
                 /\ redis = "closed")
    /\ [][/\ Running
          /\ (ConnectMongo(FALSE) \/ ConnectRedis(FALSE))
                 => exitCode' = 1 /\ boot' # "listening"
          /\ exitCode' = 0 =>
                 \E s \in Signals :
                     /\ ShutdownQuit(s, TRUE)
                     /\ sig[s].done = <<"close">>
          /\ \A s \in Signals :
                 (ShutdownClose(s, FALSE) \/ ShutdownQuit(s, FALSE))
                     => exitCode' = 1]_vars

\* The server was listening, both signals were delivered, and the process
\* has exited with code 0 from the SIGTERM handler, in which both close
\* operations completed, while the SIGINT handler was still suspended.
C11_Witness ==
    /\ exitCode = 0 /\ boot = "listening"
    /\ sig["SIGTERM"].done = <<"close", "quit">>
    /\ sig["SIGINT"].pc = "quit"
    /\ mongo = "closed" /\ redis = "closed"

(***************************************************************************)
(* C12.  Student directory: POST /addStudent accepts a payload exactly     *)
(* when id and name are both present, performs no de-duplication, and      *)
(* rejects otherwise with 400 leaving the collection unchanged; GET        *)
(* /getStudents returns every successfully added student, one entry per    *)
(* successful add even when ids repeat.                                    *)
(*                                                                         *)
(* As stated (C12_AcceptsWhenPresent: the payload goes on to the insert    *)
(* exactly when it has an id and a name) this fails: a payload whose id or *)
(* name is present and empty is rejected with 400.                         *)
(* C12_StudentDirectory is the amended claim: the payload is rejected      *)
(* with 400, without a downstream call, exactly when id or name is absent  *)
(* or empty, and goes on to the insert otherwise; a successful insert      *)
(* appends the student whatever ids the collection holds; nothing else     *)
(* changes the collection; and a successful GET /getStudents returns the   *)
(* whole collection, in insertion order.                                   *)
(***************************************************************************)
Rejected(p) ==
    /\ resp'[p] = <<Response(400, ErrorObj("Invalid student data"))>>
    /\ pc'[p] = "done"
    /\ calls'[p] = << >>

C12_AcceptsWhenPresent ==
    [][\A p \in Procs :
          (pc[p] = "idle" /\ StartAddStudent(p, arg'[p])) =>
              /\ pc'[p] = "insertOne" <=> {"id", "name"} \subseteq DOMAIN arg'[p]
              /\ pc'[p] # "insertOne" => Rejected(p)
              /\ students' = students]_vars

C12_StudentDirectory ==
    /\ [](Len(students) = nextOid.students - 1)
    /\ [][/\ \A p \in Procs :
                 (pc[p] = "idle" /\ StartAddStudent(p, arg'[p])) =>
                     /\ Rejected(p) <=>
                            \E k \in {"id", "name"} :
                                k \notin DOMAIN arg'[p] \/ arg'[p][k] = Str("")
                     /\ ~Rejected(p) =>
                            pc'[p] = "insertOne" /\ calls'[p] = <<"insertOne">>
                     /\ students' = students
          /\ \A p \in Procs :
                 /\ AddStudentInsertOne(p, TRUE) =>
                        /\ Len(students') = Len(students) + 1
                        /\ SubSeq(students', 1, Len(students)) = students
                        /\ \A k \in DOMAIN arg[p] :
                               students'[Len(students')][k] = arg[p][k]
                        /\ resp'[p][1].status = 201
                 /\ GetStudentsFind(p, TRUE) =>
                        /\ resp'[p][1].status = 200
                        /\ resp'[p][1].body =
                               [i \in 1..Len(students) |-> JSONstringify(students[i])]
          /\ students' # students =>
                 \E p \in Procs : AddStudentInsertOne(p, TRUE)]_vars

\* The collection holds two students with one id, a GET /getStudents has
\* been answered with both, and a payload with an empty id has been
\* answered 400.
C12_Witness ==
    \E p, q \in Procs :
        /\ op[p] = "getStudents" /\ Answered(p) /\ Status(p) = 200
        /\ Len(Body(p)) = 2 /\ Len(students) = 2
        /\ students[1].id = students[2].id
        /\ op[q] = "addStudent" /\ Answered(q) /\ Status(q) = 400
        /\ "id" \in DOMAIN arg[q] /\ "name" \in DOMAIN arg[q]

(***************************************************************************)
(* C13.  Health probe: GET /health answers 200 with status healthy only    *)
(* when the store ping and the cache ping both succeed in that request;    *)
(* when either ping fails it answers 503 with status unhealthy, at once;   *)
(* and the probe changes neither the store nor the cache.                  *)
(***************************************************************************)
HealthStatus(r) == JSONparse(r.body)["status"]

C13_HealthProbe ==
    /\ [](\A p \in Procs :
              (op[p] = "health" /\ Answered(p)) =>
                  /\ Status(p) \in {200, 503}
                  /\ Status(p) = 200 <=> HealthStatus(resp[p][1]) = Str("healthy")
                  /\ Status(p) = 503 <=> HealthStatus(resp[p][1]) = Str("unhealthy")
                  /\ Status(p) = 200 => calls[p] = <<"mongoPing", "redisPing">>)
    /\ [][\A p \in Procs :
              /\ (HealthMongoPing(p, FALSE) \/ HealthRedisPing(p, FALSE))
                     => /\ pc'[p] = "done" /\ Len(resp'[p]) = 1
                        /\ resp'[p][1].status = 503
                        /\ HealthStatus(resp'[p][1]) = Str("unhealthy")
                        /\ calls'[p] = calls[p]
              /\ (op[p] = "health" /\ resp'[p] # resp[p] /\ resp'[p] # << >>
                  /\ resp'[p][1].status = 200)
                     => /\ HealthRedisPing(p, TRUE)
                        /\ calls[p] = <<"mongoPing", "redisPing">>
              /\ (\/ StartHealth(p)
                  \/ \E ok \in BOOLEAN : HealthMongoPing(p, ok) \/ HealthRedisPing(p, ok))
                     => store' = store /\ cache' = cache]_vars

\* While the store holds a result and the cache a live entry, one probe has
\* been answered 200 and another, whose cache ping failed after its store
\* ping had succeeded, has been answered 503.
C13_Witness ==
    \E p, q \in Procs :
        /\ op[p] = "health" /\ Answered(p) /\ Status(p) = 200
        /\ op[q] = "health" /\ Answered(q) /\ Status(q) = 503
        /\ calls[q] = <<"mongoPing", "redisPing">>
        /\ results # << >>
        /\ \E k \in CacheKeys : Live(cache, k, now)

(***************************************************************************)
(* C14.  Request isolation: a request whose downstream call never returns  *)
(* stays suspended at that call and never gets a response, and it does not *)
(* prevent any other concurrent request from running to completion and     *)
(* getting its response.                                                   *)
(***************************************************************************)
C14_Isolation ==
    /\ [][Suspended(Hung) =>
              /\ pc'[Hung] = pc[Hung]
              /\ resp[Hung] = << >> /\ resp'[Hung] = << >>]_vars
    /\ \A p \in Procs \ {Hung} :
           (Suspended(Hung) /\ Suspended(p))
               ~> (Suspended(Hung) /\ pc[p] = "done" /\ Len(resp[p]) = 1)

\* While a lookup of an id is suspended at its cache read, which never
\* returns, a lookup of the same id that was not yet answered when the
\* first arrived has read the cache, queried the store, written the cache
\* entry and been answered 200.
C14_Witness ==
    \E p \in Procs \ {Hung} :
        /\ op[Hung] = "lookup" /\ pc[Hung] = "get" /\ resp[Hung] = << >>
        /\ p \notin after[Hung]
        /\ ColdSuccess(p) /\ arg[p].id = arg[Hung].id

(***************************************************************************)
(* C15.  Store immutability and frames: no operation updates or deletes a  *)
(* stored result, so the results collection only grows, and only through  *)
(* successful ingests; a lookup changes nothing in the store and at most   *)
(* the cache entry of the id it looked up; the student operations change   *)
(* neither the results collection nor any cache entry.                     *)
(***************************************************************************)
\* A step of the handler serving a request of one of the routes in slot p.
StepOf(p, routes) == op'[p] \in routes /\ pc'[p] # pc[p]

C15_Frames ==
    [][/\ results' # results =>
              /\ \E p \in Procs : IngestInsertOne(p, TRUE)
              /\ Len(results') = Len(results) + 1
              /\ SubSeq(results', 1, Len(results)) = results
       /\ \A p \in Procs :
              /\ StepOf(p, {"lookup"})
                     => /\ store' = store
                        /\ \A k \in CacheKeys \ {CacheKey(arg'[p].id)} :
                               cache'[k] = cache[k]
                        /\ cache' # cache => LookupSetEx(p, TRUE)
              /\ StepOf(p, {"getStudents", "addStudent"})
                     => results' = results /\ cache' = cache]_vars

\* The results collection has grown to two results with one id, the first
\* of them still in place; a lookup of that id has written its cache entry
\* and been answered, and a student has been added.
C15_Witness ==
    \E p, q \in Procs :
        /\ Len(results) = 2 /\ results[1].id = results[2].id
        /\ results[1]._id = [oid |-> 1]
        /\ ColdSuccess(p) /\ cache[Key(p)].src = "lookup"
        /\ op[q] = "addStudent" /\ Answered(q) /\ Status(q) = 201

(***************************************************************************)
(* C16.  Ingest is not undone by a concurrent lookup: once an ingest of r  *)
(* has completed successfully, the cache entry for r.id holds r until its  *)
(* TTL expires or a later ingest for that id overwrites it; a lookup that  *)
(* started before the ingest completed never replaces it with a different  *)
(* (older) document.                                                       *)
(*                                                                         *)
(* The code does not do this: a lookup that missed the cache and read an   *)
(* older result with that id from the store before the ingest's insert     *)
(* writes that older result over the entry after the ingest has answered.  *)
(***************************************************************************)
C16_IngestNotUndone ==
    [][\A q \in Procs :
          (/\ IngestSuccess(q)
           /\ cache[Key(q)].val = JSONstringify(loc[q])
           /\ Live(cache, Key(q), now))
              => \/ Payload(cache'[Key(q)].val) = Payload(cache[Key(q)].val)
                 \/ \E p \in Procs : IngestSetEx(p, TRUE)]_vars

(***************************************************************************)
(* C17.  Startup ordering: the server starts listening only after both the *)
(* store connection and the cache connection have been established, so no  *)
(* request handler ever runs against an unconnected client: whenever a     *)
(* handler issues a call to the store or to the cache, that client is      *)
(* connected; when either connection attempt fails the process exits       *)
(* without ever listening.                                                 *)
(*                                                                         *)
(* The code does not keep the clients connected for as long as it serves   *)
(* requests: a signal handler closes the store client and awaits           *)
(* redisClient.quit() while the server is still listening, and a handler   *)
(* that runs in between issues its store call on the closed client.        *)
(***************************************************************************)
IssuesCall(p, names) == pc'[p] # pc[p] /\ pc'[p] \in names

C17_ConnectedWhileServing ==
    [][\A p \in Procs :
          /\ IssuesCall(p, {"get", "setEx"}) => redis = "open"
          /\ IssuesCall(p, {"findOne"}) => mongo = "open"]_vars

====
